---- MODULE Spec2Model ----
(***************************************************************************)
(* Model of the Maestro adapter of the DEX SDK (src/src/types/adapter.ts,  *)
(* src/src/maestro-adapter.ts, src/src/utils/address-utils.internal.ts).   *)
(*                                                                         *)
(* The adapter object holds one field, the upstream client `api`.  A       *)
(* caller invokes one public method at a time; every `await` of an         *)
(* upstream call is a step whose response (or rejection) is chosen by the  *)
(* upstream.  `calls` is the log of upstream requests of the running       *)
(* invocation, `outcome` is what the invocation returned or threw.         *)
(***************************************************************************)
EXTENDS Integers, Sequences, FiniteSets

VARIABLES pc, args, page, curr, res, cursor, queryParam,
          decimalsA, decimalsB, calls, outcome

vars == <<pc, args, page, curr, res, cursor, queryParam,
          decimalsA, decimalsB, calls, outcome>>

(***************************************************************************)
(* Bounds of the model.                                                    *)
(***************************************************************************)
MaxPage == 3

(***************************************************************************)
(* JavaScript values.  null and undefined are two distinct tokens; an      *)
(* optional number is <<>> (undefined) or <<n>>.                           *)
(***************************************************************************)
Null == "<null>"
Undefined == "<undefined>"
NoValue == <<>>
Some(v) == <<v>>

\* JavaScript truthiness of a string | null | undefined value.
Truthy(v) == v \notin {Null, Undefined, ""}

Errors == {"E1", "E2"}

\* next_cursor values an upstream response can carry.
Cursors == {"c1", "c2"}
CursorValues == Cursors \cup {Null, Undefined, ""}

(***************************************************************************)
(* Addresses.  A bech32 address string is modelled by what                 *)
(* C.Address.from_bech32 decodes it to: the address kind and its payment   *)
(* credential (a script hash or a key hash).                               *)
(***************************************************************************)
Bech32Script(hash) == "script1" \o hash

POOL_SCRIPT_HASH == "script1pool"

PoolAddress == [kind |-> "enterprise", cred |-> "script", hash |-> "pool"]
PoolBaseAddress == [kind |-> "base", cred |-> "script", hash |-> "pool"]
OtherScriptAddress == [kind |-> "base", cred |-> "script", hash |-> "other"]
KeyAddress == [kind |-> "base", cred |-> "key", hash |-> "pool"]
ByronAddress == [kind |-> "byron", cred |-> "script", hash |-> "pool"]

getScriptHashFromAddress(addr) ==
    IF addr.kind \notin {"base", "enterprise", "pointer", "reward"}
    THEN Null
    ELSE IF addr.cred = "script" THEN Bech32Script(addr.hash) ELSE Null

(***************************************************************************)
(* Number.prototype.toString / BigInt.prototype.toString of a natural      *)
(* number: its decimal digits, most significant first.                     *)
(***************************************************************************)
RECURSIVE toString(_)
toString(n) == IF n < 10 THEN <<n>> ELSE Append(toString(n \div 10), n % 10)

toValue(assets) ==
    [i \in 1..Len(assets) |->
        [unit |-> assets[i].unit, quantity |-> toString(assets[i].amount)]]

(***************************************************************************)
(* Pool validation and the PoolState constructor (types/pool.internal,     *)
(* types/pool): a pool output's address resolves to the pool script hash   *)
(* and the output carries a datum hash.                                    *)
(***************************************************************************)
checkValidPoolOutputThrows(address, value, datumHash) ==
    \/ getScriptHashFromAddress(address) # POOL_SCRIPT_HASH
    \/ ~Truthy(datumHash)

isValidPoolOutput(address, value, datumHash) ==
    ~checkValidPoolOutputThrows(address, value, datumHash)

PoolState(address, txIn, value, datumHash) ==
    [address |-> address, txIn |-> txIn, value |-> value, datumHash |-> datumHash]

(***************************************************************************)
(* Outcomes of an invocation, and entries of the upstream log.             *)
(***************************************************************************)
Pending == [kind |-> "none", value |-> NoValue, error |-> ""]
Return(v) == [kind |-> "return", value |-> v, error |-> ""]
Throw(e) == [kind |-> "throw", value |-> NoValue, error |-> e]

Resolved(v) == [ok |-> TRUE, value |-> v, err |-> ""]
Rejected(e) == [ok |-> FALSE, value |-> NoValue, err |-> e]

Call(api, arg, resp) == [api |-> api, arg |-> arg, resp |-> resp]

(***************************************************************************)
(* Upstream pages.  `data` is <<>> when the object has no data field,      *)
(* else <<list>>.                                                          *)
(***************************************************************************)
EmptyObject == [data |-> NoValue, next_cursor |-> Undefined]

Utxo(address, txHash, index, amount, datumHash) ==
    [address |-> address, tx_hash |-> txHash, index |-> index,
     assets |-> <<[unit |-> "lovelace", amount |-> amount]>>,
     datumHash |-> datumHash]

UtxoLists ==
    { <<>>,
      <<Utxo(PoolAddress, "tx1", 0, 12, "dh1")>>,
      <<Utxo(KeyAddress, "tx2", 1, 5, "dh2"),
        Utxo(PoolAddress, "tx3", 2, 7, Undefined),
        Utxo(PoolBaseAddress, "tx4", 0, 30, "dh4")>> }

AssetTxLists ==
    { <<>>,
      <<[tx_hash |-> "tx1", timestamp |-> "t1"]>>,
      <<[tx_hash |-> "tx3", timestamp |-> "t3"],
        [tx_hash |-> "tx2", timestamp |-> "t2"]>> }

PaginatedUtxoWithSlot ==
    {[data |-> Some(d), next_cursor |-> c] : d \in UtxoLists, c \in CursorValues}

PaginatedAssetTx ==
    {[data |-> Some(d), next_cursor |-> c] : d \in AssetTxLists, c \in CursorValues}

(***************************************************************************)
(* The state between invocations: what the constructor leaves.             *)
(***************************************************************************)
NoQuery == [count |-> 0, order |-> "", cursor |-> Undefined]

Init ==
    /\ pc = "idle"
    /\ args = [op |-> "none"]
    /\ page = 0
    /\ curr = 0
    /\ res = EmptyObject
    /\ cursor = ""
    /\ queryParam = NoQuery
    /\ decimalsA = NoValue
    /\ decimalsB = NoValue
    /\ calls = <<>>
    /\ outcome = Pending

(***************************************************************************)
(* The pagination loop, shared text of getPaginatedUtxosByPaymentCred and  *)
(* getPaginatedAssetTx.                                                    *)
(*     while (curr < page) {                                               *)
(*       if (cursor) queryParam.cursor = cursor;                           *)
(*       if (cursor === null) break;                                       *)
(*       res = await api(param, queryParam);                               *)
(*       cursor = res.next_cursor; curr++;                                 *)
(*     }                                                                   *)
(*     return res;                                                         *)
(***************************************************************************)
\* Mutant of NextQueryParam: the cursor is never written to the query.
NextQueryParamNoCursor(q, c) == q

\* The query parameters of the next request: the cursor is overwritten only
\* by a truthy cursor.
NextQueryParam(q, c) == IF Truthy(c) THEN [q EXCEPT !.cursor = c] ELSE q

\* Mutant of LoopContinues: the null cursor does not end the loop.
LoopContinuesPastNull(cu, pg, c) == cu < pg

\* Mutant of LoopContinues: the loop runs one iteration too many.
LoopContinuesOffByOne(cu, pg, c) == cu <= pg /\ c # Null

\* The loop issues one more request.
LoopContinues(cu, pg, c) == cu < pg /\ c # Null

\* Mutant of PaginatedRequest: a rejected request is swallowed and the loop
\* goes on with the page it had.
PaginatedRequestSwallow(api, pages) ==
    /\ LoopContinues(curr, page, cursor)
    /\ queryParam' = NextQueryParam(queryParam, cursor)
    /\ \/ \E p \in pages :
            /\ calls' = Append(calls, Call(api, queryParam'.cursor, Resolved(p)))
            /\ res' = p
            /\ cursor' = p.next_cursor
            /\ curr' = curr + 1
            /\ UNCHANGED <<pc, outcome>>
       \/ \E e \in Errors :
            /\ calls' = Append(calls, Call(api, queryParam'.cursor, Rejected(e)))
            /\ curr' = curr + 1
            /\ UNCHANGED <<pc, outcome, res, cursor>>
    /\ UNCHANGED <<args, page, decimalsA, decimalsB>>

\* One iteration: the request is sent with the updated query parameters and
\* the upstream resolves it with a page or rejects it.
PaginatedRequest(api, pages) ==
    /\ LoopContinues(curr, page, cursor)
    /\ queryParam' = NextQueryParam(queryParam, cursor)
    /\ \/ \E p \in pages :
            /\ calls' = Append(calls, Call(api, queryParam'.cursor, Resolved(p)))
            /\ res' = p
            /\ cursor' = p.next_cursor
            /\ curr' = curr + 1
            /\ UNCHANGED <<pc, outcome>>
       \/ \E e \in Errors :
            /\ calls' = Append(calls, Call(api, queryParam'.cursor, Rejected(e)))
            /\ pc' = "done"
            /\ outcome' = Throw(e)
            /\ UNCHANGED <<res, cursor, curr>>
    /\ UNCHANGED <<args, page, decimalsA, decimalsB>>

(***************************************************************************)
(* getPools: the continuation after the loop returned `r`.                 *)
(***************************************************************************)
IsPoolUtxo(utxo) ==
    isValidPoolOutput(utxo.address, toValue(utxo.assets),
                      IF Truthy(utxo.datumHash) THEN utxo.datumHash ELSE Null)

UtxoToPoolState(utxo) ==
    PoolState(utxo.address, [txHash |-> utxo.tx_hash, index |-> utxo.index],
              toValue(utxo.assets), utxo.datumHash)

getPoolsResult(r) ==
    IF r.data = NoValue
    THEN Throw("TypeError")
    ELSE LET pools == SelectSeq(r.data[1], IsPoolUtxo)
         IN  IF \E i \in 1..Len(pools) : ~Truthy(pools[i].datumHash)
             THEN Throw("InvariantFailed")
             ELSE Return([i \in 1..Len(pools) |-> UtxoToPoolState(pools[i])])

(***************************************************************************)
(* getPoolHistory: the continuation after the loop returned `r`.           *)
(***************************************************************************)
Date(timestamp) == [date |-> timestamp]

getPoolHistoryResult(r) ==
    IF r.data = NoValue
    THEN Throw("TypeError")
    ELSE Return([i \in 1..Len(r.data[1]) |->
                    [txHash |-> r.data[1][i].tx_hash,
                     time |-> Date(r.data[1][i].timestamp)]])

(***************************************************************************)
(* Invocations.                                                            *)
(***************************************************************************)
Pages == -1..MaxPage

StartLoop(target, pg, order) ==
    /\ pc' = target
    /\ page' = pg
    /\ curr' = 0
    /\ res' = EmptyObject
    /\ cursor' = ""
    /\ queryParam' = [count |-> 100, order |-> order, cursor |-> Undefined]
    /\ calls' = <<>>
    /\ outcome' = Pending
    /\ UNCHANGED <<decimalsA, decimalsB>>

getPools ==
    /\ pc = "idle"
    /\ \E pg \in Pages :
        /\ args' = [op |-> "getPools", page |-> Some(pg)]
        /\ StartLoop("getPaginatedUtxosByPaymentCred", pg, "asc")

\* `page` defaults to 1 when the caller leaves it out.
DefaultPage(p) == IF p = NoValue THEN 1 ELSE p[1]

getPoolHistory ==
    /\ pc = "idle"
    /\ \E p \in {NoValue} \cup {Some(pg) : pg \in Pages} :
        /\ args' = [op |-> "getPoolHistory", page |-> p]
        /\ StartLoop("getPaginatedAssetTx", DefaultPage(p), "desc")

getPaginatedUtxosByPaymentCred ==
    /\ pc = "getPaginatedUtxosByPaymentCred"
    /\ PaginatedRequest("utxosByPaymentCred", PaginatedUtxoWithSlot)

getPaginatedAssetTx ==
    /\ pc = "getPaginatedAssetTx"
    /\ PaginatedRequest("assetTxs", PaginatedAssetTx)

\* The loop is left (target page reached, or the previous page had a null
\* cursor); the public method maps the page it was handed.
getPoolsReturn ==
    /\ pc = "getPaginatedUtxosByPaymentCred"
    /\ ~LoopContinues(curr, page, cursor)
    /\ pc' = "done"
    /\ outcome' = getPoolsResult(res)
    /\ UNCHANGED <<args, page, curr, res, cursor, queryParam,
                   decimalsA, decimalsB, calls>>

getPoolHistoryReturn ==
    /\ pc = "getPaginatedAssetTx"
    /\ ~LoopContinues(curr, page, cursor)
    /\ pc' = "done"
    /\ outcome' = getPoolHistoryResult(res)
    /\ UNCHANGED <<args, page, curr, res, cursor, queryParam,
                   decimalsA, decimalsB, calls>>

\* The caller has the outcome; the adapter is ready for the next invocation.
Settle ==
    /\ pc = "done"
    /\ pc' = "idle"
    /\ args' = [op |-> "none"]
    /\ page' = 0
    /\ curr' = 0
    /\ res' = EmptyObject
    /\ cursor' = ""
    /\ queryParam' = NoQuery
    /\ decimalsA' = NoValue
    /\ decimalsB' = NoValue
    /\ calls' = <<>>
    /\ outcome' = Pending

(***************************************************************************)
(* getAssetDecimals.  An asset identifier is a string, modelled as the     *)
(* sequence of its characters.                                             *)
(***************************************************************************)
Lovelace == <<"l", "o", "v", "e", "l", "a", "c", "e">>

HexDigits == {"0", "1", "2", "3", "4", "5", "6", "7", "8", "9",
              "a", "b", "c", "d", "e", "f", "A", "B", "C", "D", "E", "F"}

\* Mutant of isValidHex: the regular expression with * for +.
isValidHexOrEmpty(hexString) ==
    \A i \in 1..Len(hexString) : hexString[i] \in HexDigits

\* /^[0-9A-Fa-f]+$/.test(hexString): one or more characters of the class,
\* from the start of the string to its end.
isValidHex(hexString) ==
    /\ Len(hexString) >= 1
    /\ \A i \in 1..Len(hexString) : hexString[i] \in HexDigits

\* The longest identifier whose failed lookup is swallowed.
MaxHexLength == 122

\* The catch block returns 0 instead of rethrowing.
SwallowsLookupError(asset) == isValidHex(asset) /\ Len(asset) <= MaxHexLength

\* assetInfo.data.token_registry_metadata?.decimals ?? 0
DecimalsOf(info) ==
    IF info.token_registry_metadata = NoValue
    THEN 0
    ELSE IF info.token_registry_metadata[1].decimals = NoValue
         THEN 0
         ELSE info.token_registry_metadata[1].decimals[1]

\* The body of getAssetDecimals after the lovelace test, given how the
\* upstream settled the lookup.
getAssetDecimalsResult(asset, resp) ==
    IF resp.ok
    THEN Return(DecimalsOf(resp.value))
    ELSE IF SwallowsLookupError(asset) THEN Return(0) ELSE Throw(resp.err)

\* Identifiers callers pass: every string up to MaxAssetLength over a small
\* alphabet, lovelace, and long strings around the length limit.
MaxAssetLength == 2
Alphabet == {"0", "f", "A", "g", "-"}
Repeat(c, n) == [i \in 1..n |-> c]
Assets ==
    UNION {[1..n -> Alphabet] : n \in 0..MaxAssetLength}
    \cup {Lovelace}
    \cup {Repeat(c, n) : c \in {"a", "x"},
                         n \in (MaxHexLength - 1)..(MaxHexLength + 1)}
    \cup {Append(Repeat("a", MaxHexLength - 1), "g")}

DecimalValues == {0, 1, 6}

AssetInfos ==
    {[token_registry_metadata |-> NoValue]}
    \cup {[token_registry_metadata |-> Some([decimals |-> d])] :
            d \in {NoValue} \cup {Some(n) : n \in DecimalValues}}

getAssetDecimals ==
    /\ pc = "idle"
    /\ \E asset \in Assets :
        /\ args' = [op |-> "getAssetDecimals", asset |-> asset]
        /\ IF asset = Lovelace
           THEN /\ calls' = <<>>
                /\ outcome' = Return(6)
           ELSE \/ \E info \in AssetInfos :
                    /\ calls' = <<Call("assetInfo", asset, Resolved(info))>>
                    /\ outcome' = getAssetDecimalsResult(asset, Resolved(info))
                \/ \E e \in Errors :
                    /\ calls' = <<Call("assetInfo", asset, Rejected(e))>>
                    /\ outcome' = getAssetDecimalsResult(asset, Rejected(e))
    /\ pc' = "done"
    /\ UNCHANGED <<page, curr, res, cursor, queryParam, decimalsA, decimalsB>>

(***************************************************************************)
(* getPoolInTx.  The result `PoolState | null` is <<>> for null and        *)
(* <<poolState>> for a pool state.                                         *)
(***************************************************************************)
\* Mutant of FindPoolOutput: the last matching output instead of the first.
FindLastPoolOutput(outputs) ==
    LET hits == {i \in 1..Len(outputs) :
                    getScriptHashFromAddress(outputs[i].address) = POOL_SCRIPT_HASH}
    IN  IF hits = {} THEN 0 ELSE CHOOSE i \in hits : \A j \in hits : j <= i

\* outputs.find(o => getScriptHashFromAddress(o.address) === POOL_SCRIPT_HASH):
\* the position of the first match, 0 when find returns undefined.
FindPoolOutput(outputs) ==
    LET hits == {i \in 1..Len(outputs) :
                    getScriptHashFromAddress(outputs[i].address) = POOL_SCRIPT_HASH}
    IN  IF hits = {} THEN 0 ELSE CHOOSE i \in hits : \A j \in hits : i <= j

\* poolUtxo.datum?.hash || ""
DataHashOf(output) == IF Truthy(output.datumHash) THEN output.datumHash ELSE ""

\* The body of getPoolInTx after txInfo resolved with `outputs`.  `passes`
\* is whether the remaining validation of the pool output and the PoolState
\* constructor accept the output.
getPoolInTxResult(txHash, outputs, passes) ==
    LET i == FindPoolOutput(outputs) IN
    IF i = 0
    THEN Return(NoValue)
    ELSE LET poolUtxo == outputs[i]
             poolValue == toValue(poolUtxo.assets)
             dataHash == DataHashOf(poolUtxo)
         IN  IF checkValidPoolOutputThrows(poolUtxo.address, poolValue, dataHash)
                \/ ~passes
             THEN Throw("InvalidPoolOutput")
             ELSE IF ~Truthy(dataHash)
                  THEN Throw("InvariantFailed")
                  ELSE Return(Some(PoolState(poolUtxo.address,
                                             [txHash |-> txHash, index |-> poolUtxo.index],
                                             poolValue, dataHash)))

MaxOutputs == 2
TxHashes == {"txA", "txB"}
OutputAddresses == {PoolAddress, OtherScriptAddress, KeyAddress, ByronAddress}
DatumHashes == {Undefined, "", "dh1", "dh2"}

\* The outputs of a transaction: output i has index i - 1 and carries
\* i lovelace.
TxOutputs ==
    UNION {
        {[i \in 1..n |-> [address |-> a[i], index |-> i - 1,
                          assets |-> <<[unit |-> "lovelace", amount |-> 9 + i]>>,
                          datumHash |-> d[i]]] :
            a \in [1..n -> OutputAddresses], d \in [1..n -> DatumHashes]} :
        n \in 0..MaxOutputs}

getPoolInTx ==
    /\ pc = "idle"
    /\ \E txHash \in TxHashes :
        /\ args' = [op |-> "getPoolInTx", txHash |-> txHash]
        /\ \/ \E outputs \in TxOutputs, passes \in BOOLEAN :
                /\ calls' = <<Call("txInfo", txHash, Resolved([outputs |-> outputs]))>>
                /\ outcome' = getPoolInTxResult(txHash, outputs, passes)
           \/ \E e \in Errors :
                /\ calls' = <<Call("txInfo", txHash, Rejected(e))>>
                /\ outcome' = Throw(e)
    /\ pc' = "done"
    /\ UNCHANGED <<page, curr, res, cursor, queryParam, decimalsA, decimalsB>>

(***************************************************************************)
(* big.js arithmetic as getPoolPrice uses it.  A Big is a non-negative     *)
(* decimal with at most DP fractional digits; it is modelled by the        *)
(* natural number value * 10^DP.  Natural numbers beyond the machine       *)
(* integers are written in base 10^4, least significant limb first,        *)
(* without leading zero limbs (zero is <<>>).                              *)
(***************************************************************************)
\* Big.DP, the decimal places division keeps (rounding half up, Big.RM = 1).
DP == 20

Base == 10^4

RECURSIVE NTrim(_)
NTrim(x) ==
    IF x = <<>> THEN x
    ELSE IF x[Len(x)] = 0 THEN NTrim(SubSeq(x, 1, Len(x) - 1)) ELSE x

RECURSIVE NFromInt(_)
NFromInt(n) == IF n = 0 THEN <<>> ELSE <<n % Base>> \o NFromInt(n \div Base)

RECURSIVE NToIntFrom(_, _)
NToIntFrom(x, i) == IF i > Len(x) THEN 0 ELSE x[i] + Base * NToIntFrom(x, i + 1)
NToInt(x) == NToIntFrom(x, 1)

RECURSIVE NGeFrom(_, _, _)
NGeFrom(x, y, i) ==
    IF i = 0 THEN TRUE
    ELSE IF x[i] # y[i] THEN x[i] > y[i] ELSE NGeFrom(x, y, i - 1)
\* x >= y
NGe(x, y) == IF Len(x) # Len(y) THEN Len(x) > Len(y) ELSE NGeFrom(x, y, Len(x))

\* The limbs of `coef` (limb i worth coef[i] * Base^(i-1), each coefficient a
\* machine integer >= 0) with the carries propagated.
RECURSIVE NCarryFrom(_, _, _)
NCarryFrom(coef, i, carry) ==
    IF i > Len(coef)
    THEN NFromInt(carry)
    ELSE LET t == coef[i] + carry
         IN  <<t % Base>> \o NCarryFrom(coef, i + 1, t \div Base)
NCarry(coef) == NTrim(NCarryFrom(coef, 1, 0))

Limb(x, i) == IF i >= 1 /\ i <= Len(x) THEN x[i] ELSE 0
LongerLen(x, y) == IF Len(x) < Len(y) THEN Len(y) ELSE Len(x)

NAdd(x, y) == NCarry([i \in 1..LongerLen(x, y) |-> Limb(x, i) + Limb(y, i)])

\* x * m for a machine integer m, 0 <= m <= 200000
NMulSmall(x, m) == NCarry([i \in 1..Len(x) |-> x[i] * m])

RECURSIVE NDivSmallFrom(_, _, _, _)
NDivSmallFrom(x, m, i, rem) ==
    IF i = 0
    THEN <<>>
    ELSE LET cur == rem * Base + x[i]
         IN  Append(NDivSmallFrom(x, m, i - 1, cur % m), cur \div m)
\* floor(x / m) for a machine integer m, 0 < m <= 200000: long division, a
\* limb at a time
NDivSmall(x, m) == NTrim(NDivSmallFrom(x, m, Len(x), 0))

\* x * 10^k and floor(x / 10^k)
NTimesPow10(x, k) ==
    LET y == NMulSmall(x, 10^(k % 4))
    IN  IF y = <<>> THEN y ELSE [i \in 1..(k \div 4) |-> 0] \o y
NOverPow10(x, k) ==
    IF Len(x) <= k \div 4 THEN <<>>
    ELSE NDivSmall(SubSeq(x, k \div 4 + 1, Len(x)), 10^(k % 4))

\* The number of zeros that end the decimal numeral of y > 0.
RECURSIVE ZerosOfInt(_)
ZerosOfInt(n) == IF n % 10 # 0 THEN 0 ELSE 1 + ZerosOfInt(n \div 10)
RECURSIVE NTrailingZerosFrom(_, _)
NTrailingZerosFrom(y, i) ==
    IF y[i] # 0 THEN ZerosOfInt(y[i]) ELSE 4 + NTrailingZerosFrom(y, i + 1)
NTrailingZeros(y) == NTrailingZerosFrom(y, 1)

\* floor(x / y), y > 0, for the divisors that occur here: a numeral of at
\* most five significant digits followed by zeros.
NDiv(x, y) ==
    LET k == NTrailingZeros(y)
    IN  NDivSmall(NOverPow10(x, k), NToInt(NOverPow10(y, k)))

\* The natural number a string of decimal digits (most significant first)
\* denotes.
RECURSIVE NParse(_, _)
NParse(digits, n) ==
    IF n = 0 THEN <<>>
    ELSE NAdd(NMulSmall(NParse(digits, n - 1), 10), NFromInt(digits[n]))

\* Big(string)
Big(digits) == NTimesPow10(NParse(digits, Len(digits)), DP)

\* Big(10).pow(n), n >= 0
BigPow10(n) == NTimesPow10(<<1>>, n + DP)

\* x.div(y), y # 0: the quotient to DP + 1 places, rounded half up on its
\* last digit to DP places.
BigDiv(x, y) ==
    LET t == NDiv(NTimesPow10(x, DP + 1), y)
    IN  IF t = <<>> THEN t
        ELSE IF t[1] % 10 >= 5 THEN NAdd(NDivSmall(t, 10), <<1>>)
             ELSE NDivSmall(t, 10)

(***************************************************************************)
(* getPoolPrice.                                                           *)
(***************************************************************************)
\* Mutant of getPoolPriceResult: the two ratios are returned in the other
\* order.
getPoolPriceResultSwapped(pool, decA, decB) ==
    LET adjustedReserveA == BigDiv(Big(toString(pool.reserveA)), BigPow10(decA))
        adjustedReserveB == BigDiv(Big(toString(pool.reserveB)), BigPow10(decB))
    IN  IF adjustedReserveB = <<>> \/ adjustedReserveA = <<>>
        THEN Throw("DivisionByZero")
        ELSE Return(<<BigDiv(adjustedReserveB, adjustedReserveA),
                      BigDiv(adjustedReserveA, adjustedReserveB)>>)

\* The arithmetic of getPoolPrice once both decimals are known.
getPoolPriceResult(pool, decA, decB) ==
    LET adjustedReserveA == BigDiv(Big(toString(pool.reserveA)), BigPow10(decA))
        adjustedReserveB == BigDiv(Big(toString(pool.reserveB)), BigPow10(decB))
    IN  IF adjustedReserveB = <<>> \/ adjustedReserveA = <<>>
        THEN Throw("DivisionByZero")
        ELSE Return(<<BigDiv(adjustedReserveA, adjustedReserveB),
                      BigDiv(adjustedReserveB, adjustedReserveA)>>)

\* Mutant of NeedsLookup: a falsy value counts as missing.
NeedsLookupFalsy(d) == d = NoValue \/ d = Some(0)

\* decimals === undefined
NeedsLookup(d) == d = NoValue

MaxReserve == 3
Reserves == 0..MaxReserve \cup {70000}
TokenA == <<"0", "f">>
TokenB == <<"A", "0">>
NotHex == <<"g">>
Pools ==
    {[assetA |-> a[1], assetB |-> a[2], reserveA |-> ra, reserveB |-> rb] :
        a \in {<<Lovelace, TokenA>>, <<TokenA, TokenB>>, <<NotHex, Lovelace>>},
        ra \in Reserves, rb \in Reserves}
PriceDecimals == {NoValue, Some(0), Some(6), Some(DP + 1)}

getPoolPrice ==
    /\ pc = "idle"
    /\ \E pool \in Pools, dA \in PriceDecimals, dB \in PriceDecimals :
        /\ args' = [op |-> "getPoolPrice", pool |-> pool,
                    decimalsA |-> dA, decimalsB |-> dB]
        /\ decimalsA' = dA
        /\ decimalsB' = dB
    /\ pc' = "getPoolPrice_decimalsA"
    /\ calls' = <<>>
    /\ outcome' = Pending
    /\ UNCHANGED <<page, curr, res, cursor, queryParam>>

\* if (decimalsA === undefined) decimalsA = await getAssetDecimals(pool.assetA)
getPoolPriceDecimalsA ==
    /\ pc = "getPoolPrice_decimalsA"
    /\ IF ~NeedsLookup(decimalsA)
       THEN /\ pc' = "getPoolPrice_decimalsB"
            /\ UNCHANGED <<decimalsA, calls, outcome>>
       ELSE IF args.pool.assetA = Lovelace
       THEN /\ pc' = "getPoolPrice_decimalsB"
            /\ decimalsA' = Some(6)
            /\ UNCHANGED <<calls, outcome>>
       ELSE \E r \in {Resolved(info) : info \in AssetInfos}
                     \cup {Rejected(e) : e \in Errors} :
            LET got == getAssetDecimalsResult(args.pool.assetA, r) IN
            /\ calls' = Append(calls, Call("assetInfo", args.pool.assetA, r))
            /\ IF got.kind = "return"
               THEN /\ decimalsA' = Some(got.value)
                    /\ pc' = "getPoolPrice_decimalsB"
                    /\ UNCHANGED outcome
               ELSE /\ outcome' = got
                    /\ pc' = "done"
                    /\ UNCHANGED decimalsA
    /\ UNCHANGED <<args, page, curr, res, cursor, queryParam, decimalsB>>

\* if (decimalsB === undefined) decimalsB = await getAssetDecimals(pool.assetB)
\* and then the arithmetic, which has no further await.
getPoolPriceDecimalsB ==
    /\ pc = "getPoolPrice_decimalsB"
    /\ IF ~NeedsLookup(decimalsB)
       THEN /\ outcome' = getPoolPriceResult(args.pool, decimalsA[1], decimalsB[1])
            /\ pc' = "done"
            /\ UNCHANGED <<decimalsB, calls>>
       ELSE IF args.pool.assetB = Lovelace
       THEN /\ decimalsB' = Some(6)
            /\ outcome' = getPoolPriceResult(args.pool, decimalsA[1], 6)
            /\ pc' = "done"
            /\ UNCHANGED calls
       ELSE \E r \in {Resolved(info) : info \in AssetInfos}
                     \cup {Rejected(e) : e \in Errors} :
            LET got == getAssetDecimalsResult(args.pool.assetB, r) IN
            /\ calls' = Append(calls, Call("assetInfo", args.pool.assetB, r))
            /\ pc' = "done"
            /\ IF got.kind = "return"
               THEN /\ decimalsB' = Some(got.value)
                    /\ outcome' = getPoolPriceResult(args.pool, decimalsA[1], got.value)
               ELSE /\ outcome' = got
                    /\ UNCHANGED decimalsB
    /\ UNCHANGED <<args, page, curr, res, cursor, queryParam, decimalsA>>

PaginationNext ==
    \/ getPools
    \/ getPoolHistory
    \/ getPaginatedUtxosByPaymentCred
    \/ getPaginatedAssetTx
    \/ getPoolsReturn
    \/ getPoolHistoryReturn
    \/ Settle

PaginationSpec == Init /\ [][PaginationNext]_vars

(***************************************************************************)
(* The adapter as a whole: any public method may be invoked when idle.     *)
(***************************************************************************)
Next ==
    \/ getPools
    \/ getPoolHistory
    \/ getPaginatedUtxosByPaymentCred
    \/ getPaginatedAssetTx
    \/ getPoolsReturn
    \/ getPoolHistoryReturn
    \/ getAssetDecimals
    \/ getPoolInTx
    \/ getPoolPrice
    \/ getPoolPriceDecimalsA
    \/ getPoolPriceDecimalsB
    \/ Settle

Spec == Init /\ [][Next]_vars

FairPaginationSpec ==
    /\ PaginationSpec
    /\ WF_vars(getPaginatedUtxosByPaymentCred)
    /\ WF_vars(getPaginatedAssetTx)
    /\ WF_vars(getPoolsReturn)
    /\ WF_vars(getPoolHistoryReturn)

(***************************************************************************)
(* Properties of the pagination loop.                                      *)
(***************************************************************************)
Paginated == args.op \in {"getPools", "getPoolHistory"}
InLoop == pc \in {"getPaginatedUtxosByPaymentCred", "getPaginatedAssetTx"}
Min(a, b) == IF a < b THEN a ELSE b
Max(a, b) == IF a < b THEN b ELSE a

NextCursorOf(k) == calls[k].resp.value.next_cursor
AllResolved == \A k \in 1..Len(calls) : calls[k].resp.ok

\* The loop ran to its return statement (no request was rejected).
LoopReturned == Paginated /\ pc = "done" /\ AllResolved

\* The first n responses of the log carry a cursor to follow.
CursorChain(n) == \A k \in 1..n : calls[k].resp.ok /\ Truthy(NextCursorOf(k))

\* The cursor a request carried, no cursor and the falsy values being alike.
Carried(c) == IF Truthy(c) THEN c ELSE "<none>"

\* C1: for a requested page N >= 1, when each of the first N-1 responses
\* carries a non-null, non-empty next_cursor, the loop issues exactly N
\* requests, the first without a cursor and each later one with the cursor of
\* the response before it, and returns the response of the N-th request.
C1_ReturnsPageN ==
    (LoopReturned /\ page >= 1 /\ CursorChain(Min(page - 1, Len(calls))))
        => /\ Len(calls) = page
           /\ calls[1].arg = Undefined
           /\ \A k \in 2..page : calls[k].arg = NextCursorOf(k - 1)
           /\ res = calls[page].resp.value

C1_Witness ==
    /\ LoopReturned /\ page = 3 /\ Len(calls) = 3 /\ CursorChain(2)
    /\ calls[3].arg = "c2" /\ NextCursorOf(1) = "c1"
    /\ res = calls[3].resp.value /\ res # calls[2].resp.value

\* C2: when the K-th response carries next_cursor = null and K is below the
\* requested page, the K-th request is the last one and the loop returns the
\* K-th response.
C2_StopsAtNullCursor ==
    Paginated =>
        \A K \in 1..Len(calls) :
            (K < page /\ calls[K].resp.ok /\ NextCursorOf(K) = Null)
                => /\ Len(calls) = K
                   /\ res = calls[K].resp.value
                   /\ pc = "done" => outcome.error \notin Errors

C2_Witness ==
    /\ LoopReturned /\ page = 3 /\ Len(calls) = 2
    /\ NextCursorOf(1) = "c1" /\ NextCursorOf(2) = Null
    /\ res = calls[2].resp.value

\* C3: getPools returns the pools of the requested page, and an empty array
\* when the requested page is after the last page of the upstream.
C3_GetPoolsPastLastPageIsEmpty ==
    (LoopReturned /\ args.op = "getPools" /\ page >= 1
     /\ CursorChain(Len(calls) - 1))
        => /\ Len(calls) = page => outcome = getPoolsResult(calls[page].resp.value)
           /\ (Len(calls) < page /\ NextCursorOf(Len(calls)) = Null)
                => (outcome.kind = "return" /\ outcome.value = <<>>)

\* C7: a rejected request of the loop is the last request of the invocation,
\* and the invocation fails with the error of that rejection.
C7_RejectionPropagates ==
    Paginated =>
        \A k \in 1..Len(calls) :
            ~calls[k].resp.ok
                => /\ k = Len(calls)
                   /\ pc = "done"
                   /\ outcome = Throw(calls[k].resp.err)

C7_Witness ==
    /\ Paginated /\ pc = "done" /\ page = 3 /\ Len(calls) = 2
    /\ calls[1].resp.ok /\ ~calls[2].resp.ok
    /\ outcome = Throw("E2")

\* C9: the first request carries no cursor and every later request carries
\* the next_cursor of the response before it, whatever that value is.
C9_CursorFollowsPreviousResponse ==
    Paginated =>
        \A k \in 1..Len(calls) :
            IF k = 1
            THEN calls[k].arg = Undefined
            ELSE Carried(calls[k].arg) = Carried(NextCursorOf(k - 1))

\* C10: the loop terminates; it issues at most `page` requests, none when
\* page <= 0 (the result is then the placeholder object without a data
\* field), and min(page, K) when the K-th response is the first with a null
\* cursor.
C10_RequestCount ==
    Paginated =>
        /\ Len(calls) <= Max(page, 0)
        /\ (pc = "done" /\ page <= 0) => (res = EmptyObject /\ res.data = NoValue)
        /\ (LoopReturned /\ page >= 1 /\ CursorChain(Len(calls) - 1))
            => /\ Len(calls) >= 1
               /\ \/ Len(calls) = page
                  \/ Len(calls) < page /\ NextCursorOf(Len(calls)) = Null

AssetDecimalsSpec == Init /\ [][getAssetDecimals \/ Settle]_vars

Returns(v) == outcome.kind = "return" /\ outcome.value = v
Throws(e) == outcome.kind = "throw" /\ outcome.error = e

WellFormedHex(a) ==
    Len(a) > 0 /\ {a[i] : i \in 1..Len(a)} \subseteq HexDigits

\* C4: lovelace has 6 decimals and no lookup is made; a failed lookup gives 0
\* for a non-empty all-hex identifier of length <= 122 and rethrows the
\* upstream error for every other identifier; a successful lookup gives the
\* registry's decimals, or 0 when the metadata or its decimals are absent.
C4_AssetDecimals ==
    (pc = "done" /\ args.op = "getAssetDecimals") =>
        IF args.asset = Lovelace
        THEN calls = <<>> /\ Returns(6)
        ELSE /\ Len(calls) = 1
             /\ calls[1].api = "assetInfo"
             /\ calls[1].arg = args.asset
             /\ IF calls[1].resp.ok
                THEN LET md == calls[1].resp.value.token_registry_metadata
                     IN  IF md = NoValue \/ md[1].decimals = NoValue
                         THEN Returns(0)
                         ELSE Returns(md[1].decimals[1])
                ELSE IF WellFormedHex(args.asset) /\ Len(args.asset) <= 122
                     THEN Returns(0)
                     ELSE Throws(calls[1].resp.err)

C4_Witness ==
    /\ pc = "done" /\ args.op = "getAssetDecimals"
    /\ Len(args.asset) = 123 /\ WellFormedHex(args.asset)
    /\ ~calls[1].resp.ok /\ Throws("E2")

(***************************************************************************)
(* Properties of getPoolInTx.                                              *)
(***************************************************************************)
PoolInTxSpec == Init /\ [][getPoolInTx \/ Settle]_vars

\* The address pays to the script whose hash is POOL_SCRIPT_HASH.
PaysToPoolScript(a) ==
    a.kind # "byron" /\ a.cred = "script" /\ "script1" \o a.hash = POOL_SCRIPT_HASH

\* C6: without an output paying to the pool script the result is null;
\* otherwise the call fails or returns the PoolState of the first such
\* output (its address, the given txHash with its index, its assets, its
\* datum hash), and the datum hash of a returned PoolState is never empty.
C6_PoolInTx ==
    (pc = "done" /\ args.op = "getPoolInTx" /\ calls[1].resp.ok) =>
        LET outs == calls[1].resp.value.outputs
            hits == {i \in 1..Len(outs) : PaysToPoolScript(outs[i].address)}
        IN  IF hits = {}
            THEN Returns(NoValue)
            ELSE LET o == outs[CHOOSE i \in hits : \A j \in hits : i <= j]
                 IN  /\ outcome.kind \in {"return", "throw"}
                     /\ o.datumHash \in {Undefined, Null, ""} => outcome.kind = "throw"
                     /\ outcome.kind = "return" =>
                            /\ Len(outcome.value) = 1
                            /\ outcome.value[1].address = o.address
                            /\ outcome.value[1].txIn =
                                 [txHash |-> args.txHash, index |-> o.index]
                            /\ outcome.value[1].value =
                                 <<[unit |-> "lovelace", quantity |-> <<1, 0 + o.index>>]>>
                            /\ outcome.value[1].datumHash = o.datumHash
                            /\ outcome.value[1].datumHash \notin {Undefined, Null, ""}

C6_Witness ==
    /\ pc = "done" /\ args.op = "getPoolInTx" /\ calls[1].resp.ok
    /\ Len(calls[1].resp.value.outputs) = 2
    /\ PaysToPoolScript(calls[1].resp.value.outputs[1].address)
    /\ PaysToPoolScript(calls[1].resp.value.outputs[2].address)
    /\ calls[1].resp.value.outputs[1].datumHash = "dh1"
    /\ calls[1].resp.value.outputs[2].datumHash = "dh2"
    /\ outcome.kind = "return"

(***************************************************************************)
(* Properties of getPoolPrice.                                             *)
(***************************************************************************)
PriceNext ==
    \/ getPoolPrice
    \/ getPoolPriceDecimalsA
    \/ getPoolPriceDecimalsB
    \/ Settle

PriceSpec == Init /\ [][PriceNext]_vars

PriceDone == pc = "done" /\ args.op = "getPoolPrice"

\* Subtraction and multiplication of natural numbers, to state the bounds.
RECURSIVE NSubFrom(_, _, _, _)
NSubFrom(x, y, i, borrow) ==
    IF i > Len(x)
    THEN <<>>
    ELSE LET t == x[i] - Limb(y, i) - borrow
         IN  <<(t + Base) % Base>> \o NSubFrom(x, y, i + 1, IF t < 0 THEN 1 ELSE 0)
\* x - y, for x >= y
NSub(x, y) == NTrim(NSubFrom(x, y, 1, 0))
\* |x - y|
NDist(x, y) == IF NGe(x, y) THEN NSub(x, y) ELSE NSub(y, x)

\* x[1] * y[k] + x[2] * y[k-1] + ... + x[i] * y[k+1-i]
RECURSIVE NConvolve(_, _, _, _)
NConvolve(x, y, k, i) ==
    IF i = 0 THEN 0 ELSE Limb(x, i) * Limb(y, k + 1 - i) + NConvolve(x, y, k, i - 1)
NMul(x, y) ==
    IF x = <<>> \/ y = <<>> THEN <<>>
    ELSE NCarry([k \in 1..(Len(x) + Len(y) - 1) |-> NConvolve(x, y, k, k)])

\* 10^n as a natural number, and the scale of a Big.
NPow10(n) == NTimesPow10(<<1>>, n)
Scale == NPow10(DP)

\* num / den rounded half up to an integer: floor((2 num + den) / (2 den)).
RoundedQuotient(num, den) ==
    NDiv(NAdd(NMulSmall(num, 2), den), NMulSmall(den, 2))

\* reserve / 10^decimals, to DP places.
Adjusted(reserve, decimals) ==
    RoundedQuotient(NMul(NFromInt(reserve), Scale), NPow10(decimals))

\* C5 (as amended): the two prices are the quotients of the adjusted
\* reserves, each rounded half up to DP = 20 decimal places, so their
\* product is 1 only up to that rounding:
\*     |priceAB * priceBA - 1| <= (priceAB + priceBA) / (2 * 10^20)
\*                                + 1 / (4 * 10^40);
\* the call fails with a division by zero exactly when an adjusted reserve
\* rounds to 0.
C5_PriceWithinRounding ==
    (PriceDone /\ outcome.error \notin Errors) =>
        LET a == Adjusted(args.pool.reserveA, decimalsA[1])
            b == Adjusted(args.pool.reserveB, decimalsB[1])
        IN  IF a = <<>> \/ b = <<>>
            THEN Throws("DivisionByZero")
            ELSE LET priceAB == outcome.value[1]
                     priceBA == outcome.value[2]
                 IN  /\ outcome.kind = "return"
                     /\ priceAB = RoundedQuotient(NMul(a, Scale), b)
                     /\ priceBA = RoundedQuotient(NMul(b, Scale), a)
                     /\ NGe(NAdd(NMulSmall(NAdd(priceAB, priceBA), 2), <<1>>),
                            NMulSmall(NDist(NMul(priceAB, priceBA),
                                            NMul(Scale, Scale)), 4))

C5_Witness ==
    /\ PriceDone /\ outcome.kind = "return"
    /\ args.pool.reserveA = 2 /\ args.pool.reserveB = 3
    /\ decimalsA = Some(6) /\ decimalsB = Some(0)
    /\ NMul(outcome.value[1], outcome.value[2]) # NMul(Scale, Scale)

\* C5 (as stated): for non-zero reserves and any decimals the product of the
\* two returned prices equals 1.
C5_ProductIsOne ==
    (PriceDone /\ outcome.kind = "return"
     /\ args.pool.reserveA # 0 /\ args.pool.reserveB # 0)
        => NMul(outcome.value[1], outcome.value[2]) = NMul(Scale, Scale)

\* C8: the indexer is asked for an asset's decimals only when the parameter
\* is undefined (0 is a given value), assetA before assetB; given values are
\* the ones used; an error that getAssetDecimals rethrows ends getPoolPrice
\* with that error, without a further lookup and without a price.
C8_LookupOnlyWhenUndefined ==
    PriceDone =>
        LET pool == args.pool
            askA == args.decimalsA = NoValue /\ pool.assetA # Lovelace
            askB == args.decimalsB = NoValue /\ pool.assetB # Lovelace
            Rethrown(k) ==
                /\ ~calls[k].resp.ok
                /\ ~(WellFormedHex(calls[k].arg) /\ Len(calls[k].arg) <= 122)
            failA == askA /\ Len(calls) >= 1 /\ Rethrown(1)
        IN  /\ [k \in 1..Len(calls) |-> calls[k].arg]
                 = (IF askA THEN <<pool.assetA>> ELSE <<>>)
                   \o (IF askB /\ ~failA THEN <<pool.assetB>> ELSE <<>>)
            /\ \A k \in 1..Len(calls) : calls[k].api = "assetInfo"
            /\ args.decimalsA # NoValue => decimalsA = args.decimalsA
            /\ args.decimalsB # NoValue => decimalsB = args.decimalsB
            /\ (args.decimalsA # NoValue /\ args.decimalsB # NoValue)
                => /\ calls = <<>>
                   /\ outcome = getPoolPriceResult(pool, args.decimalsA[1],
                                                   args.decimalsB[1])
            /\ \A k \in 1..Len(calls) :
                 Rethrown(k) => (k = Len(calls) /\ Throws(calls[k].resp.err))
            /\ (\A k \in 1..Len(calls) : ~Rethrown(k)) => outcome.error \notin Errors

C8_Witness ==
    /\ PriceDone /\ outcome.kind = "return"
    /\ args.decimalsA = Some(0) /\ args.decimalsB = NoValue
    /\ args.pool.assetA = TokenA
    /\ Len(calls) = 1 /\ calls[1].arg = args.pool.assetB

====
